---- MODULE Spec2Model ----
(***************************************************************************)
(* Model of c3dio's src/processor.rs: the Processor enum, the detection of *)
(* the processor from the parameter start block, and the six conversions   *)
(* between raw bytes and u16 / i16 / f32 values.                           *)
(*                                                                         *)
(* Byte arrays are functions over 0..n-1 so that indices are the source's. *)
(* An f32 is its IEEE-754 bit pattern, held as the three fields            *)
(* [sign, exp, frac] (1, 8 and 23 bits).                                   *)
(***************************************************************************)
EXTENDS Integers, FiniteSets, Sequences, TLC

VARIABLES self, arg, op, ret, arith

vars == <<self, arg, op, ret, arith>>

-----------------------------------------------------------------------------
(* Bounds of the sampled input space *)

Edge == 2

-----------------------------------------------------------------------------
(* Types *)

Processor == {"Dec", "Intel", "SgiMips"}

ProcessorDefault == "Intel"

new == ProcessorDefault

Byte == 0..255

BlockLen == 512

MarkerIntel == 84

MarkerDec == 85

MarkerSgiMips == 86

Arr2(a, b) == [i \in 0..1 |-> IF i = 0 THEN a ELSE b]

Arr4(a, b, c, d) == [i \in 0..3 |-> CASE i = 0 -> a [] i = 1 -> b [] i = 2 -> c [] OTHER -> d]

Ok(v) == [tag |-> "Ok", val |-> v]

Err(e) == [tag |-> "Err", val |-> e]

-----------------------------------------------------------------------------
(* u8 arithmetic: the exact result, whether it fits, and the wrapped value *)

u8_fits(x) == x \in Byte

u8_wrap(x) == x % 256

-----------------------------------------------------------------------------
(* Standard library conversions, by what they compute *)

u16_from_le_bytes(bytes) == bytes[0] + 256 * bytes[1]

u16_from_be_bytes(bytes) == 256 * bytes[0] + bytes[1]

as_i16(u) == IF u >= 32768 THEN u - 65536 ELSE u

i16_from_le_bytes(bytes) == as_i16(bytes[0] + 256 * bytes[1])

i16_from_be_bytes(bytes) == as_i16(256 * bytes[0] + bytes[1])

u16_to_le_bytes(value) == Arr2(value % 256, value \div 256)

u16_to_be_bytes(value) == Arr2(value \div 256, value % 256)

i16_to_le_bytes(value) == u16_to_le_bytes(value % 65536)

i16_to_be_bytes(value) == u16_to_be_bytes(value % 65536)

f32_from_le_bytes(bytes) ==
    [sign |-> bytes[3] \div 128,
     exp  |-> (bytes[3] % 128) * 2 + bytes[2] \div 128,
     frac |-> (bytes[2] % 128) * 65536 + bytes[1] * 256 + bytes[0]]

f32_from_be_bytes(bytes) ==
    [sign |-> bytes[0] \div 128,
     exp  |-> (bytes[0] % 128) * 2 + bytes[1] \div 128,
     frac |-> (bytes[1] % 128) * 65536 + bytes[2] * 256 + bytes[3]]

f32_to_le_bytes(value) ==
    Arr4(value.frac % 256,
         (value.frac \div 256) % 256,
         (value.exp % 2) * 128 + value.frac \div 65536,
         value.sign * 128 + value.exp \div 2)

f32_to_be_bytes(value) ==
    Arr4(value.sign * 128 + value.exp \div 2,
         (value.exp % 2) * 128 + value.frac \div 65536,
         (value.frac \div 256) % 256,
         value.frac % 256)

is_finite(value) == value.exp # 255

-----------------------------------------------------------------------------
(* Processor::from_parameter_start_block *)

from_parameter_start_block_idx2(parameter_start_block) ==
    CASE parameter_start_block[2] = MarkerIntel   -> Ok("Intel")
      [] parameter_start_block[2] = MarkerDec     -> Ok("Dec")
      [] parameter_start_block[2] = MarkerSgiMips -> Ok("SgiMips")
      [] OTHER -> Err("InvalidProcessorType")

from_parameter_start_block_lax(parameter_start_block) ==
    CASE parameter_start_block[3] = MarkerIntel   -> Ok("Intel")
      [] parameter_start_block[3] = MarkerDec     -> Ok("Dec")
      [] parameter_start_block[3] = MarkerSgiMips -> Ok("SgiMips")
      [] OTHER -> Ok(ProcessorDefault)

from_parameter_start_block(parameter_start_block) ==
    CASE parameter_start_block[3] = MarkerIntel   -> Ok("Intel")
      [] parameter_start_block[3] = MarkerDec     -> Ok("Dec")
      [] parameter_start_block[3] = MarkerSgiMips -> Ok("SgiMips")
      [] OTHER -> Err("InvalidProcessorType")

-----------------------------------------------------------------------------
(* The free conversion functions *)

intel_u16(bytes) == u16_from_le_bytes(bytes)

dec_u16(bytes) == u16_from_le_bytes(bytes)

sgi_mips_u16_le(bytes) == u16_from_le_bytes(bytes)

sgi_mips_u16(bytes) == u16_from_be_bytes(bytes)

intel_i16(bytes) == i16_from_le_bytes(bytes)

dec_i16(bytes) == i16_from_le_bytes(bytes)

sgi_mips_i16(bytes) == i16_from_be_bytes(bytes)

intel_f32(bytes) == f32_from_le_bytes(bytes)

sgi_mips_f32_le(bytes) == f32_from_le_bytes(bytes)

sgi_mips_f32(bytes) == f32_from_be_bytes(bytes)

(* dec_f32's reordered array, with the u8 subtraction left exact *)
dec_f32_bytes_nodec(bytes) ==
    IF bytes[1] = 0
    THEN Arr4(bytes[2], bytes[3], bytes[0], bytes[1])
    ELSE Arr4(bytes[2], bytes[3], bytes[0], bytes[1])

dec_f32_bytes_idx3(bytes) ==
    IF bytes[3] = 0
    THEN Arr4(bytes[2], bytes[3], bytes[0], bytes[1])
    ELSE Arr4(bytes[2], bytes[3], bytes[0], bytes[1] - 1)

dec_f32_bytes(bytes) ==
    IF bytes[1] = 0
    THEN Arr4(bytes[2], bytes[3], bytes[0], bytes[1])
    ELSE Arr4(bytes[2], bytes[3], bytes[0], bytes[1] - 1)

dec_f32_overflows(bytes) == \E i \in 0..3 : ~u8_fits(dec_f32_bytes(bytes)[i])

dec_f32(bytes) ==
    f32_from_le_bytes([i \in 0..3 |-> u8_wrap(dec_f32_bytes(bytes)[i])])

-----------------------------------------------------------------------------
(* The methods of Processor *)

u16(p, bytes) ==
    CASE p = "Intel"   -> intel_u16(bytes)
      [] p = "Dec"     -> dec_u16(bytes)
      [] p = "SgiMips" -> sgi_mips_u16(bytes)

i16(p, bytes) ==
    CASE p = "Intel"   -> intel_i16(bytes)
      [] p = "Dec"     -> dec_i16(bytes)
      [] p = "SgiMips" -> sgi_mips_i16(bytes)

f32(p, bytes) ==
    CASE p = "Intel"   -> intel_f32(bytes)
      [] p = "Dec"     -> dec_f32(bytes)
      [] p = "SgiMips" -> sgi_mips_f32(bytes)

f32_overflows(p, bytes) == p = "Dec" /\ dec_f32_overflows(bytes)

u16_to_bytes_le(p, value) ==
    CASE p = "Intel"   -> u16_to_le_bytes(value)
      [] p = "Dec"     -> u16_to_le_bytes(value)
      [] p = "SgiMips" -> u16_to_le_bytes(value)

u16_to_bytes(p, value) ==
    CASE p = "Intel"   -> u16_to_le_bytes(value)
      [] p = "Dec"     -> u16_to_le_bytes(value)
      [] p = "SgiMips" -> u16_to_be_bytes(value)

i16_to_bytes(p, value) ==
    CASE p = "Intel"   -> i16_to_le_bytes(value)
      [] p = "Dec"     -> i16_to_le_bytes(value)
      [] p = "SgiMips" -> i16_to_be_bytes(value)

(* f32_to_bytes' array, with the u8 addition of the Dec arm left exact *)
f32_to_bytes_exact_always(p, value) ==
    CASE p = "Intel"   -> f32_to_le_bytes(value)
      [] p = "Dec"     ->
            LET temp == f32_to_le_bytes(value)
            IN  Arr4(temp[2], temp[3] + 1, temp[0], temp[1])
      [] p = "SgiMips" -> f32_to_be_bytes(value)

f32_to_bytes_exact_zero(p, value) ==
    CASE p = "Intel"   -> f32_to_le_bytes(value)
      [] p = "Dec"     ->
            LET temp == f32_to_le_bytes(value)
            IN  IF temp[3] = 0
                THEN Arr4(temp[2], temp[3], temp[0], temp[1])
                ELSE Arr4(temp[2], temp[3] + 1, temp[0], temp[1])
      [] p = "SgiMips" -> f32_to_be_bytes(value)

f32_to_bytes_exact_254(p, value) ==
    CASE p = "Intel"   -> f32_to_le_bytes(value)
      [] p = "Dec"     ->
            LET temp == f32_to_le_bytes(value)
            IN  IF temp[3] >= 254
                THEN Arr4(temp[2], temp[3], temp[0], temp[1])
                ELSE Arr4(temp[2], temp[3] + 1, temp[0], temp[1])
      [] p = "SgiMips" -> f32_to_be_bytes(value)

f32_to_bytes_exact(p, value) ==
    CASE p = "Intel"   -> f32_to_le_bytes(value)
      [] p = "Dec"     ->
            LET temp == f32_to_le_bytes(value)
            IN  IF temp[3] = 255
                THEN Arr4(temp[2], temp[3], temp[0], temp[1])
                ELSE Arr4(temp[2], temp[3] + 1, temp[0], temp[1])
      [] p = "SgiMips" -> f32_to_be_bytes(value)

f32_to_bytes_overflows(p, value) ==
    \E i \in 0..3 : ~u8_fits(f32_to_bytes_exact(p, value)[i])

f32_to_bytes(p, value) ==
    [i \in 0..3 |-> u8_wrap(f32_to_bytes_exact(p, value)[i])]

-----------------------------------------------------------------------------
(* Inputs *)

ByteSamples == (0..Edge) \cup ((255 - Edge)..255) \cup {63, 127, 128, 191}

Bytes2Samples == {Arr2(a, b) : a \in ByteSamples, b \in ByteSamples}

Bytes4Samples ==
    {Arr4(a, b, c, d) : a \in ByteSamples, b \in ByteSamples,
                        c \in ByteSamples, d \in ByteSamples}

U16Samples == {u16_from_le_bytes(b) : b \in Bytes2Samples}

I16Samples == {i16_from_le_bytes(b) : b \in Bytes2Samples}

F32Samples == {f32_from_le_bytes(b) : b \in Bytes4Samples}

Bytes2All == {Arr2(a, b) : a \in Byte, b \in Byte}

U16All == 0..65535

I16All == -32768..32767

MakeBlock(marker, fill, pos, x) ==
    [i \in 0..(BlockLen - 1) |->
        IF i = 3 THEN marker ELSE IF i = pos THEN x ELSE fill]

FillSamples == {0, MarkerDec, 255}

OtherIdx == {2, 4, BlockLen - 1}

OtherBytes == {MarkerIntel, MarkerSgiMips}

BlockSamples ==
    {MakeBlock(m, f, q, x) : m \in Byte, f \in FillSamples,
                             q \in OtherIdx, x \in OtherBytes}

In(k, v) == [kind |-> k, v |-> v]

NoRet == [tag |-> "none", val |-> 0]

-----------------------------------------------------------------------------
(* State machine: one call of one operation on one input *)

InitCommon ==
    /\ op = "new"
    /\ ret = NoRet
    /\ arith = "exact"

Init ==
    /\ InitCommon
    /\ \/ self = new /\ \E b \in BlockSamples : arg = In("block", b)
       \/ self \in Processor /\ \E b \in Bytes2Samples : arg = In("bytes2", b)
       \/ self \in Processor /\ \E b \in Bytes4Samples : arg = In("bytes4", b)
       \/ self \in Processor /\ \E n \in U16Samples : arg = In("u16", n)
       \/ self \in Processor /\ \E n \in I16Samples : arg = In("i16", n)
       \/ self \in Processor /\ \E x \in F32Samples : arg = In("f32", x)

InitInt ==
    /\ InitCommon
    /\ self \in Processor
    /\ \/ \E b \in Bytes2All : arg = In("bytes2", b)
       \/ \E n \in U16All : arg = In("u16", n)
       \/ \E n \in I16All : arg = In("i16", n)

Returns(name, r) ==
    /\ op' = name
    /\ ret' = r
    /\ arith' = "exact"
    /\ UNCHANGED <<self, arg>>

(* A u8 operation that does not fit panics when overflow checks are on
   and wraps when they are off. *)
ReturnsChecked(name, overflows, r) ==
    /\ op' = name
    /\ UNCHANGED <<self, arg>>
    /\ IF overflows
       THEN \/ arith' = "panic" /\ ret' = NoRet
            \/ arith' = "wrap" /\ ret' = r
       ELSE arith' = "exact" /\ ret' = r

Detect ==
    /\ op = "new"
    /\ arg.kind = "block"
    /\ Returns("from_parameter_start_block", from_parameter_start_block(arg.v))

U16 ==
    /\ op = "new"
    /\ arg.kind = "bytes2"
    /\ Returns("u16", [tag |-> "u16", val |-> u16(self, arg.v)])

I16 ==
    /\ op = "new"
    /\ arg.kind = "bytes2"
    /\ Returns("i16", [tag |-> "i16", val |-> i16(self, arg.v)])

F32 ==
    /\ op = "new"
    /\ arg.kind = "bytes4"
    /\ ReturnsChecked("f32", f32_overflows(self, arg.v),
                      [tag |-> "f32", val |-> f32(self, arg.v)])

U16ToBytes ==
    /\ op = "new"
    /\ arg.kind = "u16"
    /\ Returns("u16_to_bytes", [tag |-> "bytes", val |-> u16_to_bytes(self, arg.v)])

I16ToBytes ==
    /\ op = "new"
    /\ arg.kind = "i16"
    /\ Returns("i16_to_bytes", [tag |-> "bytes", val |-> i16_to_bytes(self, arg.v)])

F32ToBytes ==
    /\ op = "new"
    /\ arg.kind = "f32"
    /\ ReturnsChecked("f32_to_bytes", f32_to_bytes_overflows(self, arg.v),
                      [tag |-> "bytes", val |-> f32_to_bytes(self, arg.v)])

Next ==
    \/ Detect
    \/ U16
    \/ I16
    \/ F32
    \/ U16ToBytes
    \/ I16ToBytes
    \/ F32ToBytes

NextInt ==
    \/ U16
    \/ I16
    \/ U16ToBytes
    \/ I16ToBytes

Spec == Init /\ [][Next]_vars

SpecInt == InitInt /\ [][NextInt]_vars

TypeOK ==
    /\ self \in Processor
    /\ op \in {"new", "from_parameter_start_block", "u16", "i16", "f32",
               "u16_to_bytes", "i16_to_bytes", "f32_to_bytes"}
    /\ arith \in {"exact", "panic", "wrap"}

-----------------------------------------------------------------------------
(* Named values used by the properties *)

F32One == [sign |-> 0, exp |-> 127, frac |-> 0]

F32MinusOne == [sign |-> 1, exp |-> 127, frac |-> 0]

F32Zero == [sign |-> 0, exp |-> 0, frac |-> 0]

F32MinusZero == [sign |-> 1, exp |-> 0, frac |-> 0]

F32MinSubnormal == [sign |-> 0, exp |-> 0, frac |-> 1]

F32Max == [sign |-> 0, exp |-> 254, frac |-> 8388607]

Reverse4(b) == [i \in 0..3 |-> b[3 - i]]

-----------------------------------------------------------------------------
(* C1: detection returns Ok(Intel) for marker 0x54, Ok(Dec) for 0x55 and
   Ok(SgiMips) for 0x56 at index 3, and every block with the same byte at
   index 3 gives the same result whatever its other bytes are. *)
C1_DetectByMarker ==
    op = "from_parameter_start_block" =>
        /\ arg.v[3] = 84 => ret = Ok("Intel")
        /\ arg.v[3] = 85 => ret = Ok("Dec")
        /\ arg.v[3] = 86 => ret = Ok("SgiMips")
        /\ \A f \in FillSamples, q \in OtherIdx, x \in OtherBytes :
              from_parameter_start_block(MakeBlock(arg.v[3], f, q, x)) = ret

C1_Witness ==
    /\ op = "from_parameter_start_block"
    /\ arg.v[3] = 85
    /\ arg.v[2] = 84
    /\ arg.v[0] = 255
    /\ ret = Ok("Dec")

(* C2: any other byte at index 3 gives the InvalidProcessorType error and
   never a variant; no conversion returns an error. *)
C2_DetectRejects ==
    /\ (op = "from_parameter_start_block" /\ arg.v[3] \notin {84, 85, 86})
          => ret = Err("InvalidProcessorType")
    /\ (op \notin {"new", "from_parameter_start_block"}) => ret.tag # "Err"

C2_Witness ==
    /\ op = "from_parameter_start_block"
    /\ arg.v[3] = 83
    /\ arg.v[4] = 86
    /\ ret.tag = "Err"

(* C3: for every variant, 16-bit encoding and decoding are inverses of each
   other in both directions, for u16 and for i16. *)
C3_IntRoundTrip ==
    /\ op = "u16_to_bytes" =>
          /\ ret.val \in Bytes2All
          /\ u16(self, ret.val) = arg.v
    /\ op = "i16_to_bytes" =>
          /\ ret.val \in Bytes2All
          /\ i16(self, ret.val) = arg.v
    /\ op = "u16" =>
          /\ ret.val \in U16All
          /\ u16_to_bytes(self, ret.val) = arg.v
    /\ op = "i16" =>
          /\ ret.val \in I16All
          /\ i16_to_bytes(self, ret.val) = arg.v

C3_Witness ==
    /\ op = "i16_to_bytes"
    /\ self = "SgiMips"
    /\ arg.v = -2
    /\ ret.val = Arr2(255, 254)

(* C4: Intel and Dec read and write 16-bit integers little-endian, SgiMips
   big-endian; Dec and Intel agree on every integer. *)
C4_ByteOrder ==
    LET le(b) == b[0] + 256 * b[1]
        be(b) == 256 * b[0] + b[1]
        twos(u) == IF u >= 32768 THEN u - 65536 ELSE u
        word(b) == IF self = "SgiMips" THEN be(b) ELSE le(b)
    IN  /\ op = "u16" =>
              /\ ret.val = word(arg.v)
              /\ self = "Dec" => ret.val = u16("Intel", arg.v)
              /\ (self = "SgiMips" /\ arg.v = Arr2(1, 2)) => ret.val = 258
              /\ (self = "Intel" /\ arg.v = Arr2(1, 2)) => ret.val = 513
        /\ op = "i16" =>
              /\ ret.val = twos(word(arg.v))
              /\ self = "Dec" => ret.val = i16("Intel", arg.v)
        /\ op = "u16_to_bytes" =>
              /\ word(ret.val) = arg.v
              /\ self = "Dec" => ret.val = u16_to_bytes("Intel", arg.v)
        /\ op = "i16_to_bytes" =>
              /\ twos(word(ret.val)) = arg.v
              /\ self = "Dec" => ret.val = i16_to_bytes("Intel", arg.v)

C4_Witness ==
    /\ op = "u16"
    /\ self = "SgiMips"
    /\ arg.v = Arr2(1, 2)
    /\ ret.val = 258

(* C5: Dec f32 decoding of [b0,b1,b2,b3] yields the single whose
   little-endian bytes are [b2,b3,b0,b1] when b1 = 0 and [b2,b3,b0,b1-1]
   otherwise. *)
C5_DecDecode ==
    (op = "f32" /\ self = "Dec") =>
        /\ ret.tag = "f32"
        /\ f32_to_le_bytes(ret.val) =
              IF arg.v[1] = 0
              THEN Arr4(arg.v[2], arg.v[3], arg.v[0], arg.v[1])
              ELSE Arr4(arg.v[2], arg.v[3], arg.v[0], arg.v[1] - 1)

C5_Witness ==
    /\ op = "f32"
    /\ self = "Dec"
    /\ arg.v = Arr4(0, 128, 1, 255)
    /\ ret.tag = "f32"
    /\ f32_to_le_bytes(ret.val) = Arr4(1, 255, 0, 127)

(* C6: Dec f32 encoding of the single with little-endian bytes
   [t0,t1,t2,t3] outputs [t2,t3,t0,t1] when t3 = 0xFF and [t2,t3+1,t0,t1]
   otherwise, and the byte at index 1 is never the result of a wrap. *)
C6_DecEncode ==
    (op = "f32_to_bytes" /\ self = "Dec") =>
        LET t == f32_to_le_bytes(arg.v)
        IN  /\ arith = "exact"
            /\ ret.tag = "bytes"
            /\ ret.val = IF t[3] = 255
                         THEN Arr4(t[2], t[3], t[0], t[1])
                         ELSE Arr4(t[2], t[3] + 1, t[0], t[1])
            /\ ret.val[1] >= t[3]

C6_Witness ==
    /\ op = "f32_to_bytes"
    /\ self = "Dec"
    /\ f32_to_le_bytes(arg.v) = Arr4(1, 2, 128, 255)
    /\ ret.val = Arr4(128, 255, 1, 2)

(* C7: under Dec, decoding the encoding of a value whose most significant
   IEEE-754 byte is not 0xFF gives the value back, in particular for 1.0,
   -1.0, 0.0 and the smallest subnormal. *)
C7_DecValueRoundTrip ==
    (/\ op = "f32_to_bytes"
     /\ self = "Dec"
     /\ \/ f32_to_le_bytes(arg.v)[3] # 255
        \/ arg.v \in {F32One, F32MinusOne, F32Zero, F32MinSubnormal}) =>
        /\ ret.tag = "bytes"
        /\ ~f32_overflows("Dec", ret.val)
        /\ f32("Dec", ret.val) = arg.v

C7_Witness ==
    /\ op = "f32_to_bytes"
    /\ self = "Dec"
    /\ arg.v = F32One
    /\ ret.val = Arr4(128, 64, 0, 0)

(* C8: under Intel and SgiMips, f32 encoding and decoding round-trip on the
   bit pattern of every finite value; Intel is little-endian and SgiMips
   the reverse order. *)
C8_IeeeRoundTrip ==
    /\ (op = "f32_to_bytes" /\ self \in {"Intel", "SgiMips"}
            /\ is_finite(arg.v)) =>
          /\ ret.tag = "bytes"
          /\ f32(self, ret.val) = arg.v
          /\ self = "Intel" => ret.val = f32_to_le_bytes(arg.v)
          /\ self = "SgiMips" => ret.val = Reverse4(f32_to_le_bytes(arg.v))
    /\ (op = "f32" /\ self \in {"Intel", "SgiMips"}) =>
          /\ ret.tag = "f32"
          /\ is_finite(ret.val) => f32_to_bytes(self, ret.val) = arg.v
          /\ self = "SgiMips" => ret.val = f32("Intel", Reverse4(arg.v))
          /\ (self = "Intel" /\ arg.v = Arr4(0, 0, 128, 63)) => ret.val = F32One
          /\ (self = "SgiMips" /\ arg.v = Arr4(63, 128, 0, 0)) => ret.val = F32One

C8_Witness ==
    /\ op = "f32"
    /\ self = "SgiMips"
    /\ arg.v = Arr4(63, 128, 0, 0)
    /\ ret.val = F32One

(* C9: every conversion returns a value in range for every variant and
   input, and no u8 subtraction or addition leaves 0..255. *)
C9_Total ==
    /\ op = "new" => ENABLED Next
    /\ op # "new" =>
          /\ arith = "exact"
          /\ ret.tag # "none"
          /\ ret.tag = "u16" => ret.val \in U16All
          /\ ret.tag = "i16" => ret.val \in I16All
          /\ ret.tag = "f32" =>
                /\ ret.val.sign \in 0..1
                /\ ret.val.exp \in Byte
                /\ ret.val.frac \in 0..8388607
          /\ ret.tag = "bytes" => \A i \in DOMAIN ret.val : ret.val[i] \in Byte
    /\ (op = "f32" /\ self = "Dec") =>
          \A i \in 0..3 : dec_f32_bytes(arg.v)[i] \in Byte
    /\ op = "f32_to_bytes" =>
          \A i \in 0..3 : f32_to_bytes_exact(self, arg.v)[i] \in Byte

C9_Witness ==
    /\ op = "f32_to_bytes"
    /\ self = "Dec"
    /\ f32_to_le_bytes(arg.v)[3] = 254
    /\ arith = "exact"
    /\ ret.val[1] = 255

(* C10: under Dec, encoding the decoding of b gives b back when b1 # 0 and
   [b0, 1, b2, b3] when b1 = 0, so [b0,0,b2,b3] and [b0,1,b2,b3] decode to
   the same value. *)
C10_DecBytesRoundTrip ==
    (op = "f32" /\ self = "Dec") =>
        /\ ret.tag = "f32"
        /\ ~f32_to_bytes_overflows("Dec", ret.val)
        /\ arg.v[1] # 0 => f32_to_bytes("Dec", ret.val) = arg.v
        /\ arg.v[1] = 0 =>
              /\ f32_to_bytes("Dec", ret.val) =
                    Arr4(arg.v[0], 1, arg.v[2], arg.v[3])
              /\ f32("Dec", Arr4(arg.v[0], 1, arg.v[2], arg.v[3])) = ret.val

C10_Witness ==
    /\ op = "f32"
    /\ self = "Dec"
    /\ arg.v = Arr4(255, 0, 128, 1)
    /\ f32_to_bytes("Dec", ret.val) = Arr4(255, 1, 128, 1)

====
